---- MODULE Spec2Model ----
(***************************************************************************)
(* State-machine model of the GameCanvas component (src/components/        *)
(* GameCanvas.tsx) with the tuning constants of src/constants.ts.          *)
(*                                                                         *)
(* Numbers.  Every physics quantity of the program is a JavaScript double  *)
(* that is a multiple of 0.25 of magnitude below 2^11, so all sums are     *)
(* exact.  The model stores distances and velocities as integers counting  *)
(* quarters of a world unit: Q(n) is n whole units, Fixed(h) is h          *)
(* hundredths of a unit.                                                   *)
(*                                                                         *)
(* React.  gameState, score and highScore are useState cells.  A setter    *)
(* called from a handler only enqueues an update; React applies the queue  *)
(* in order when the handler has returned, re-renders, and re-runs the     *)
(* game-loop effect (dependencies [gameState, score]), which re-creates    *)
(* render and endGame over the new values.  Each action below is one       *)
(* handler together with the commit it causes.  Inside a handler the names *)
(* gameState and score therefore denote the values of the last commit,     *)
(* i.e. the unprimed variables.                                            *)
(*                                                                         *)
(* Frame loop.  pendingFrames is the browser's set of requested, not yet   *)
(* run or cancelled, animation-frame callbacks and animationFrameId the    *)
(* ref holding the handle of the last request.  Handles are unique among   *)
(* the pending callbacks; the model hands out the least unused one.        *)
(* mounted is FALSE once the component has been unmounted, by teardown or  *)
(* by React after an exception escaped a state updater (no error boundary  *)
(* exists in App.tsx).                                                     *)
(***************************************************************************)
EXTENDS Integers, Sequences, FiniteSets, TLC

VARIABLES gameState, score, highScore, birdY, birdVelocity, pipes,
          frameCount, flappyHighScore,
          mounted, animationFrameId, pendingFrames

vars == <<gameState, score, highScore, birdY, birdVelocity, pipes,
          frameCount, flappyHighScore,
          mounted, animationFrameId, pendingFrames>>

(***************************************************************************)
(* Bounds of the exploration.                                              *)
(***************************************************************************)
\* a session is explored for at most this many Playing frames
MaxFrames == 260
\* an impulse is delivered during Playing only on every ImpulseEvery-th frame
ImpulseEvery == 12
\* under fairness, frames left to a session after its last impulse (a bird
\* needs at most 92 frames from an impulse to the ground line)
FallFrames == 100

(***************************************************************************)
(* Fixed-point representation.                                             *)
(***************************************************************************)
Fixed(hundredths) == (4 * hundredths) \div 100
Q(units) == 4 * units

(***************************************************************************)
(* src/constants.ts                                                        *)
(***************************************************************************)
GAME_WIDTH == 400
GAME_HEIGHT == 600
gravity == Fixed(25)
jumpStrength == Fixed(-550)
pipeSpeed == Fixed(250)
pipeSpawnRate == 140
pipeGap == 160
birdRadius == 14

(***************************************************************************)
(* Literals of GameCanvas.tsx                                              *)
(***************************************************************************)
pipeWidth == 50
minPipeHeight == 50
maxPipeHeight == GAME_HEIGHT - pipeGap - minPipeHeight - 100
groundHeight == 20
cleanupX == -60
bobAmplitude == 10

START == "START"
PLAYING == "PLAYING"
GAME_OVER == "GAME_OVER"
GameState == {START, PLAYING, GAME_OVER}

(***************************************************************************)
(* localStorage item 'flappyHighScore': absent (null) or a string, modelled*)
(* as the sequence of its decimal digits.                                  *)
(***************************************************************************)
null == <<>>

RECURSIVE toString(_)
toString(n) == IF n < 10 THEN <<n>> ELSE Append(toString(n \div 10), n % 10)

RECURSIVE parseInt(_)
parseInt(s) ==
    IF Len(s) = 1 THEN s[1]
    ELSE 10 * parseInt(SubSeq(s, 1, Len(s) - 1)) + s[Len(s)]

Max(a, b) == IF a >= b THEN a ELSE b

\* mount effect: const saved = getItem(..); if (saved) setHighScore(parseInt(saved, 10))
LoadHighScore(saved) == IF saved # null THEN parseInt(saved) ELSE 0

(***************************************************************************)
(* Inputs drawn by the environment.                                        *)
(***************************************************************************)
\* Math.floor(Math.random() * (max - min + 1)) + min ranges over min..max;
\* the exploration samples it.
HeightSamples == {minPipeHeight, 250, maxPipeHeight}
RandomHeights == {h \in minPipeHeight..maxPipeHeight : h \in HeightSamples}

\* Math.sin(Date.now() / 300) * 10 ranges over [-10, 10]; sampled on the
\* quarter grid.
BobSamples == {Q(-bobAmplitude), -9, Q(bobAmplitude)}

\* what an earlier page load may have left in the store: nothing, or the
\* string endGame wrote for some best score
BestSamples == {0, 12}
StoredAtMount == {null} \cup {toString(n) : n \in BestSamples}

(***************************************************************************)
(* Init: the component after its first render and its mount effects.       *)
(***************************************************************************)
Init ==
    /\ gameState = START
    /\ score = 0
    /\ flappyHighScore \in StoredAtMount
    /\ highScore = LoadHighScore(flappyHighScore)
    /\ birdY = Q(GAME_HEIGHT) \div 2
    /\ birdVelocity = 0
    /\ pipes = <<>>
    /\ frameCount = 0
    /\ mounted = TRUE
    /\ animationFrameId = 0
    /\ pendingFrames = {0}

(***************************************************************************)
(* The game-loop effect.                                                   *)
(***************************************************************************)
\* the handle requestAnimationFrame returns when `pending` are outstanding
NewFrameId(pending) ==
    CHOOSE n \in 0..Cardinality(pending) :
        n \notin pending /\ \A m \in 0..(n - 1) : m \in pending

\* variant: the cleanup does not cancel the frame requested before
gameLoopEffectNoCancel(pending, id) ==
    IF gameState' # gameState \/ score' # score
    THEN LET started == NewFrameId(pending)
         IN  /\ pendingFrames' = pending \cup {started}
             /\ animationFrameId' = started
    ELSE /\ pendingFrames' = pending
         /\ animationFrameId' = id

\* the commit after a handler that left `pending` and the ref `id`: when
\* gameState or score changed, the effect's cleanup runs
\* cancelAnimationFrame(animationFrameId.current) and the effect body
\* animationFrameId.current = requestAnimationFrame(render)
gameLoopEffect(pending, id) ==
    IF gameState' # gameState \/ score' # score
    THEN LET cancelled == pending \ {id}
             started == NewFrameId(cancelled)
         IN  /\ pendingFrames' = cancelled \cup {started}
             /\ animationFrameId' = started
    ELSE /\ pendingFrames' = pending
         /\ animationFrameId' = id

\* unmounting runs the effect's cleanup
unmount ==
    /\ mounted
    /\ mounted' = FALSE
    /\ pendingFrames' = pendingFrames \ {animationFrameId}
    /\ UNCHANGED <<gameState, score, highScore, birdY, birdVelocity, pipes,
                   frameCount, flappyHighScore, animationFrameId>>

(***************************************************************************)
(* resetGame, jump                                                         *)
(***************************************************************************)
\* variant: the frame counter survives the reset
resetGameKeepsFrameCount ==
    /\ birdY' = Q(GAME_HEIGHT) \div 2
    /\ birdVelocity' = 0
    /\ pipes' = <<>>
    /\ score' = 0
    /\ gameState' = START
    /\ UNCHANGED <<frameCount, highScore, flappyHighScore>>

resetGame ==
    /\ birdY' = Q(GAME_HEIGHT) \div 2
    /\ birdVelocity' = 0
    /\ pipes' = <<>>
    /\ frameCount' = 0
    /\ score' = 0
    /\ gameState' = START
    /\ UNCHANGED <<highScore, flappyHighScore>>

\* the exploration delivers impulses during Playing only on a frame grid
ImpulseAllowed == gameState = PLAYING => frameCount % ImpulseEvery = 0

\* variant: an impulse in START is evaluated against the mode of the render
\* before (GAME_OVER) and resets again
jumpStale ==
    /\ mounted
    /\ IF gameState = PLAYING THEN
           /\ birdVelocity' = jumpStrength
           /\ UNCHANGED <<gameState, score, highScore, birdY, pipes,
                          frameCount, flappyHighScore>>
       ELSE
           resetGame
    /\ UNCHANGED mounted
    /\ gameLoopEffect(pendingFrames, animationFrameId)

\* variant: the impulse is added to the velocity instead of replacing it
jumpAdditive ==
    /\ mounted
    /\ IF gameState = PLAYING THEN
           /\ birdVelocity' = birdVelocity + jumpStrength
           /\ UNCHANGED <<gameState, score, highScore, birdY, pipes,
                          frameCount, flappyHighScore>>
       ELSE IF gameState = START THEN
           /\ gameState' = PLAYING
           /\ birdVelocity' = birdVelocity + jumpStrength
           /\ UNCHANGED <<score, highScore, birdY, pipes, frameCount,
                          flappyHighScore>>
       ELSE
           /\ gameState = GAME_OVER
           /\ resetGame
    /\ UNCHANGED mounted
    /\ gameLoopEffect(pendingFrames, animationFrameId)

\* variant: an impulse in GAME_OVER restarts play at once
jumpRestarts ==
    /\ mounted
    /\ IF gameState = PLAYING THEN
           /\ birdVelocity' = jumpStrength
           /\ UNCHANGED <<gameState, score, highScore, birdY, pipes,
                          frameCount, flappyHighScore>>
       ELSE
           /\ gameState' = PLAYING
           /\ birdVelocity' = jumpStrength
           /\ birdY' = Q(GAME_HEIGHT) \div 2
           /\ pipes' = <<>>
           /\ frameCount' = 0
           /\ score' = 0
           /\ UNCHANGED <<highScore, flappyHighScore>>
    /\ UNCHANGED mounted
    /\ gameLoopEffect(pendingFrames, animationFrameId)

jump ==
    /\ mounted
    /\ IF gameState = PLAYING THEN
           /\ birdVelocity' = jumpStrength
           /\ UNCHANGED <<gameState, score, highScore, birdY, pipes,
                          frameCount, flappyHighScore>>
       ELSE IF gameState = START THEN
           /\ gameState' = PLAYING
           /\ birdVelocity' = jumpStrength
           /\ UNCHANGED <<score, highScore, birdY, pipes, frameCount,
                          flappyHighScore>>
       ELSE
           /\ gameState = GAME_OVER
           /\ resetGame
    /\ UNCHANGED mounted
    /\ gameLoopEffect(pendingFrames, animationFrameId)

\* the replay button, rendered only in the GAME_OVER overlay
onClick ==
    /\ mounted
    /\ gameState = GAME_OVER
    /\ resetGame
    /\ UNCHANGED mounted
    /\ gameLoopEffect(pendingFrames, animationFrameId)

(***************************************************************************)
(* render: one animation frame.                                            *)
(***************************************************************************)
birdLeft == Q(GAME_WIDTH) \div 2 - Q(birdRadius)
birdRight == Q(GAME_WIDTH) \div 2 + Q(birdRadius)
birdTop(y) == y - Q(birdRadius)
birdBottom(y) == y + Q(birdRadius)
pipeLeft(pipe) == pipe.x
pipeRight(pipe) == pipe.x + Q(pipeWidth)

\* variant: a bird touching the lower edge of the top pipe counts as a hit
hitTopPipeTouching(pipe, y) ==
    /\ birdRight > pipeLeft(pipe)
    /\ birdLeft < pipeRight(pipe)
    /\ birdTop(y) <= Q(pipe.topHeight)

hitTopPipe(pipe, y) ==
    /\ birdRight > pipeLeft(pipe)
    /\ birdLeft < pipeRight(pipe)
    /\ birdTop(y) < Q(pipe.topHeight)

hitBottomPipe(pipe, y) ==
    /\ birdRight > pipeLeft(pipe)
    /\ birdLeft < pipeRight(pipe)
    /\ birdBottom(y) > Q(pipe.topHeight + pipeGap)

\* variant: the new pipe is put at the front of the sequence
SpawnAtFront(ps, fc, randomHeight) ==
    IF fc % pipeSpawnRate = 0
    THEN <<[x |-> Q(GAME_WIDTH), topHeight |-> randomHeight,
            passed |-> FALSE]>> \o ps
    ELSE ps

\* variant: the spawn test is taken after the frame counter moved
SpawnOffByOne(ps, fc, randomHeight) ==
    IF (fc + 1) % pipeSpawnRate = 0
    THEN Append(ps, [x |-> Q(GAME_WIDTH), topHeight |-> randomHeight,
                     passed |-> FALSE])
    ELSE ps

\* pipes.current.push({x: GAME_WIDTH, topHeight: randomHeight, passed: false})
Spawn(ps, fc, randomHeight) ==
    IF fc % pipeSpawnRate = 0
    THEN Append(ps, [x |-> Q(GAME_WIDTH), topHeight |-> randomHeight,
                     passed |-> FALSE])
    ELSE ps

\* pipe.x -= CONFIG.pipeSpeed
MovePipe(pipe) == [pipe EXCEPT !.x = @ - pipeSpeed]

\* variant: the passed flag is not consulted
ScoresIgnoringPassed(pipe) == birdLeft > pipeRight(pipe)

\* the score test of the forEach body, on the moved pipe
Scores(pipe) == ~pipe.passed /\ birdLeft > pipeRight(pipe)

\* the forEach body's effect on one pipe
StepPipe(pipe) ==
    LET moved == MovePipe(pipe)
    IN  IF Scores(moved) THEN [moved EXCEPT !.passed = TRUE] ELSE moved

\* number of endGame() calls the forEach makes for bird position y
PipeHits(ps, y) ==
    Cardinality({i \in 1..Len(ps) :
        hitTopPipe(MovePipe(ps[i]), y) \/ hitBottomPipe(MovePipe(ps[i]), y)})

\* number of setScore(prev => prev + 1) calls the forEach makes
ScoreUpdates(ps) ==
    Cardinality({i \in 1..Len(ps) : Scores(MovePipe(ps[i]))})

\* variant: the front pipe is removed once its left edge is behind the
\* bird's centre
CleanupBehindBird(ps) ==
    IF Len(ps) > 0 /\ ps[1].x < Q(GAME_WIDTH) \div 2 THEN Tail(ps) ELSE ps

\* variant: the front pipe is removed as soon as it reaches the margin
CleanupAtMargin(ps) ==
    IF Len(ps) > 0 /\ ps[1].x <= Q(cleanupX) THEN Tail(ps) ELSE ps

\* if (pipes.current.length > 0 && pipes.current[0].x < -60) pipes.current.shift()
Cleanup(ps) ==
    IF Len(ps) > 0 /\ ps[1].x < Q(cleanupX) THEN Tail(ps) ELSE ps

\* birdY + radius >= GAME_HEIGHT - 20 || birdY - radius <= 0
hitBounds(y) ==
    \/ y + Q(birdRadius) >= Q(GAME_HEIGHT - groundHeight)
    \/ y - Q(birdRadius) <= 0

\* some endGame() call of a Playing frame is reached for the positions the
\* frame leaves (a pipe shifted by the cleanup is behind the bird)
Collides ==
    \/ hitBounds(birdY)
    \/ \E i \in 1..Len(pipes) :
           hitTopPipe(pipes[i], birdY) \/ hitBottomPipe(pipes[i], birdY)

\* birdVelocity.current += CONFIG.gravity
applyGravity(v) == v + gravity

\* variant: the position moves by the velocity of the previous frame
applyVelocityStale(y, v) == y + (v - gravity)

\* birdY.current += birdVelocity.current
applyVelocity(y, v) == y + v

\* variant: the best score is replaced by the score
endGameUpdaterNoMax(prev, renderedScore) == renderedScore

\* variant: the best score is never raised
endGameUpdaterKeeps(prev, renderedScore) == prev

\* the setHighScore updater of endGame, closed over the rendered score
endGameUpdater(prev, renderedScore) == Max(prev, renderedScore)

\* variant: the session's score is stored instead of the new best
setItemScore(newHigh) == toString(score)

\* localStorage.setItem('flappyHighScore', newHigh.toString())
setItem(newHigh) == toString(newHigh)

\* the queue of n identical setHighScore updaters, applied in order
RECURSIVE ApplyEndGames(_, _, _)
ApplyEndGames(n, prev, renderedScore) ==
    IF n = 0 THEN prev
    ELSE ApplyEndGames(n - 1, endGameUpdater(prev, renderedScore),
                       renderedScore)

\* one Playing frame.  quotaExceeded: localStorage.setItem throws; the
\* exception leaves the setHighScore updater while React renders the queued
\* updates, so none of them is committed and React unmounts the component.
\* The refs were already written by the frame.
renderPlaying(randomHeight, quotaExceeded) ==
    LET v       == applyGravity(birdVelocity)
        y       == applyVelocity(birdY, v)
        spawned == Spawn(pipes, frameCount, randomHeight)
        stepped == [i \in 1..Len(spawned) |-> StepPipe(spawned[i])]
        ends    == PipeHits(spawned, y) + (IF hitBounds(y) THEN 1 ELSE 0)
        newHigh == ApplyEndGames(ends, highScore, score)
        thrown  == ends > 0 /\ quotaExceeded
    IN  /\ birdVelocity' = v
        /\ birdY' = y
        /\ pipes' = Cleanup(stepped)
        /\ frameCount' = frameCount + 1
        /\ mounted' = ~thrown
        /\ IF thrown
           THEN UNCHANGED <<score, gameState, highScore, flappyHighScore>>
           ELSE /\ score' = score + ScoreUpdates(spawned)
                /\ gameState' = IF ends > 0 THEN GAME_OVER ELSE gameState
                /\ highScore' = newHigh
                /\ flappyHighScore' =
                       IF ends > 0 THEN setItem(newHigh) ELSE flappyHighScore

\* variant: the frame integrates gravity in START as well
renderStartFalling(bob) ==
    /\ birdVelocity' = applyGravity(birdVelocity)
    /\ birdY' = Q(GAME_HEIGHT) \div 2 + bob
    /\ UNCHANGED <<gameState, score, highScore, pipes, frameCount,
                   flappyHighScore, mounted>>

renderStart(bob) ==
    /\ birdY' = Q(GAME_HEIGHT) \div 2 + bob
    /\ UNCHANGED <<gameState, score, highScore, birdVelocity, pipes,
                   frameCount, flappyHighScore, mounted>>

\* the animation-frame callback: physics, draw, and
\* animationFrameId.current = requestAnimationFrame(render); then the commit,
\* or, when the component was unmounted, the effect's cleanup
render ==
    /\ mounted
    /\ \E callback \in pendingFrames :
           LET running   == pendingFrames \ {callback}
               requested == NewFrameId(running)
           IN  /\ IF gameState = PLAYING THEN
                      /\ frameCount < MaxFrames
                      /\ \E randomHeight \in RandomHeights :
                             \E quotaExceeded \in BOOLEAN :
                                 renderPlaying(randomHeight, quotaExceeded)
                  ELSE IF gameState = START THEN
                      \E bob \in BobSamples : renderStart(bob)
                  ELSE
                      UNCHANGED <<gameState, score, highScore, birdY,
                                  birdVelocity, pipes, frameCount,
                                  flappyHighScore, mounted>>
               /\ IF mounted'
                  THEN gameLoopEffect(running \cup {requested}, requested)
                  ELSE /\ pendingFrames' = running
                       /\ animationFrameId' = requested

Next == render \/ (ImpulseAllowed /\ jump) \/ onClick \/ unmount

Spec == Init /\ [][Next]_vars

(***************************************************************************)
(* The frame loop under fairness.  Every callback ends by requesting the   *)
(* next frame and the browser runs a pending callback at the next display  *)
(* refresh, so a frame that stays enabled is eventually run.  No teardown  *)
(* is taken, and the last impulse of a session leaves the bird FallFrames  *)
(* frames to come down before the exploration's frame limit.               *)
(***************************************************************************)
LiveImpulseAllowed ==
    gameState = PLAYING =>
        /\ frameCount % ImpulseEvery = 0
        /\ frameCount + FallFrames <= MaxFrames

NextLive == render \/ (LiveImpulseAllowed /\ jump) \/ onClick

LiveSpec == Init /\ [][NextLive]_vars /\ WF_vars(render)

TypeOK ==
    /\ gameState \in GameState
    /\ score \in Nat
    /\ highScore \in Nat
    /\ birdY \in Int
    /\ birdVelocity \in Int
    /\ frameCount \in 0..MaxFrames
    /\ Len(pipes) <= 2
    /\ mounted \in BOOLEAN
    /\ animationFrameId \in Nat
    /\ pendingFrames \subseteq Nat

(***************************************************************************)
(* Properties                                                              *)
(***************************************************************************)

\* C1: every step that takes the mode from PLAYING to GAME_OVER leaves the
\* best score, in memory and as parsed back from the store, equal to the
\* larger of the previous best and the score shown after that step.
BestAfterGameOver ==
    [][(gameState = PLAYING /\ gameState' = GAME_OVER) =>
          /\ highScore' = (IF highScore >= score' THEN highScore ELSE score')
          /\ flappyHighScore' # null
          /\ parseInt(flappyHighScore') = highScore']_vars

\* C1 witness: a session ended with one pipe passed and the best score, in
\* memory and in the store, raised to it.
BestRaisedAtGameOver ==
    /\ gameState = GAME_OVER
    /\ score = 1
    /\ highScore = 1
    /\ flappyHighScore = <<1>>

\* C2: a Playing frame raises the score by the number of pipes whose right
\* edge the bird's left edge has cleared in this very frame (at most one),
\* a pipe is flagged passed exactly when its right edge is cleared, and no
\* other step changes the score except the reset, which zeroes it.
ScoreOncePerObstacle ==
    [][/\ \A i \in 1..Len(pipes') :
              pipes'[i].passed <=> (birdLeft > pipes'[i].x + Q(pipeWidth))
       /\ IF gameState = PLAYING /\ frameCount' = frameCount + 1
          THEN LET cleared == {i \in 1..Len(pipes') :
                                  /\ birdLeft > pipes'[i].x + Q(pipeWidth)
                                  /\ birdLeft <= pipes'[i].x + pipeSpeed
                                                   + Q(pipeWidth)}
               IN  /\ score' = score + Cardinality(cleared)
                   /\ Cardinality(cleared) <= 1
          ELSE \/ score' = score
               \/ gameState = GAME_OVER /\ gameState' = START /\ score' = 0
      ]_vars

\* C2 witness: the frame after the first pipe was cleared: the score is 1
\* and the cleared pipe is still within one frame of the bird's left edge.
ScoredFirstPipe ==
    /\ gameState = PLAYING
    /\ score = 1
    /\ Len(pipes) = 1
    /\ pipes[1].passed
    /\ birdLeft <= pipes[1].x + pipeSpeed + Q(pipeWidth)

\* C3: the mode changes only START -> PLAYING and GAME_OVER -> START, both
\* on an input, and PLAYING -> GAME_OVER, on a frame; an impulse acts on the
\* current mode only (START -> PLAYING, PLAYING -> PLAYING, GAME_OVER ->
\* START), the replay button only resets.
ModeTransitions ==
    [][/\ gameState' # gameState =>
              \/ gameState = START /\ gameState' = PLAYING /\ jump
              \/ gameState = GAME_OVER /\ gameState' = START
                     /\ (jump \/ onClick)
              \/ gameState = PLAYING /\ gameState' = GAME_OVER /\ render
                     /\ ~jump
       /\ jump => \/ gameState = START /\ gameState' = PLAYING
                  \/ gameState = PLAYING /\ gameState' = PLAYING
                  \/ gameState = GAME_OVER /\ gameState' = START
       /\ onClick => gameState = GAME_OVER /\ gameState' = START
      ]_vars

\* C3 witness: a second session is being played: every transition of the
\* cycle START -> PLAYING -> GAME_OVER -> START -> PLAYING was taken.
SecondSessionPlaying ==
    /\ gameState = PLAYING
    /\ highScore = 1
    /\ score = 0
    /\ frameCount > 0

\* C4: an impulse in PLAYING sets the velocity to jumpStrength (-5.5) and
\* changes nothing else; an impulse in START sets the same velocity and
\* enters PLAYING.
ImpulseOverwrites ==
    [][jump =>
          /\ gameState = PLAYING =>
                 /\ birdVelocity' = Fixed(-550)
                 /\ UNCHANGED <<gameState, score, highScore, birdY, pipes,
                                frameCount, flappyHighScore>>
          /\ gameState = START =>
                 /\ birdVelocity' = Fixed(-550)
                 /\ gameState' = PLAYING]_vars

\* C4 witness: the velocity is the impulse constant in the middle of a
\* session, so an impulse has just overwritten the velocity of a falling
\* bird.
ImpulseWhilePlaying ==
    /\ gameState = PLAYING
    /\ frameCount >= ImpulseEvery
    /\ birdVelocity = jumpStrength

\* C5: a Playing frame adds gravity (0.25) to the velocity and then the new
\* velocity to the position; from position 300 and velocity 0 it yields
\* velocity 0.25 and position 300.25, and from position 300 just after an
\* impulse it yields velocity -5.25 and position 294.75.
GravityThenPosition ==
    [][(gameState = PLAYING /\ render) =>
          /\ birdVelocity' = birdVelocity + Fixed(25)
          /\ birdVelocity' > birdVelocity
          /\ birdY' = birdY + birdVelocity'
          /\ (birdY = Q(300) /\ birdVelocity = 0) =>
                 (birdVelocity' = Fixed(25) /\ birdY' = Fixed(30025))
          /\ (birdY = Q(300) /\ birdVelocity = Fixed(-550)) =>
                 (birdVelocity' = Fixed(-525) /\ birdY' = Fixed(29475))
      ]_vars

\* C5 witness: the frame taken from position 300 at rest has been stepped.
SteppedFromRest ==
    /\ gameState = PLAYING
    /\ birdVelocity = Fixed(25)
    /\ birdY = Fixed(30025)

\* C6: a Playing frame that ends clear of ground and ceiling ends the game
\* only when some pipe strictly overlaps the bird's box on both axes;
\* with edges touching the mode stays PLAYING.
PipeCollisionStrict ==
    [][(/\ gameState = PLAYING
        /\ render
        /\ birdY' + Q(birdRadius) < Q(GAME_HEIGHT - groundHeight)
        /\ birdY' - Q(birdRadius) > 0) =>
          (gameState' = GAME_OVER =>
              \E i \in 1..Len(pipes') :
                  /\ Q(GAME_WIDTH) \div 2 + Q(birdRadius) > pipes'[i].x
                  /\ Q(GAME_WIDTH) \div 2 - Q(birdRadius)
                         < pipes'[i].x + Q(pipeWidth)
                  /\ \/ birdY' - Q(birdRadius) < Q(pipes'[i].topHeight)
                     \/ birdY' + Q(birdRadius)
                            > Q(pipes'[i].topHeight + pipeGap))]_vars

\* C6 witness: play goes on with the top of the bird's box exactly on the
\* lower edge of a top pipe it overlaps horizontally.
TouchingTopPipe ==
    /\ gameState = PLAYING
    /\ \E i \in 1..Len(pipes) :
           /\ birdRight > pipes[i].x
           /\ birdLeft < pipes[i].x + Q(pipeWidth)
           /\ birdY - Q(birdRadius) = Q(pipes[i].topHeight)

\* C7: an input processed in GAME_OVER is the reset: it leaves the mode START,
\* score 0, no pipes, frame counter 0, the bird at GAME_HEIGHT/2 with
\* velocity 0, and the best score and the store as they were.
ResetIsFull ==
    [][(gameState = GAME_OVER /\ (jump \/ onClick)) =>
          /\ gameState' = START
          /\ score' = 0
          /\ pipes' = <<>>
          /\ frameCount' = 0
          /\ birdY' = Q(GAME_HEIGHT) \div 2
          /\ birdVelocity' = 0
          /\ highScore' = highScore
          /\ flappyHighScore' = flappyHighScore]_vars

\* C7 witness: back in START after a session that scored: the state is that
\* of a fresh session but for the best score it kept.
ResetAfterScoring ==
    /\ gameState = START
    /\ highScore = 1
    /\ score = 0
    /\ frameCount = 0
    /\ pipes = <<>>
    /\ birdVelocity = 0

\* C8: a Playing frame advances the frame counter by 1 and appends a pipe
\* (seen after its first move, not passed) exactly when the counter was a
\* multiple of the spawn rate; no other step adds a pipe, and the reset
\* restarts the counter at 0.
SpawnOnInterval ==
    [][IF gameState = PLAYING /\ render
       THEN /\ frameCount' = frameCount + 1
            /\ (frameCount % 140 = 0) <=>
                   /\ Len(pipes') > 0
                   /\ pipes'[Len(pipes')].x = Q(GAME_WIDTH) - pipeSpeed
                   /\ ~pipes'[Len(pipes')].passed
            /\ (frameCount % 140 # 0) => Len(pipes') <= Len(pipes)
       ELSE /\ pipes' = pipes \/ pipes' = <<>>
            /\ frameCount' = frameCount \/ frameCount' = 0
            /\ (gameState = GAME_OVER /\ gameState' = START) =>
                   frameCount' = 0
      ]_vars

\* C8 witness: the second pipe of a session has just been created, by the
\* frame with counter value 140.
SecondPipeSpawned ==
    /\ frameCount = 141
    /\ Len(pipes) = 2
    /\ pipes[2].x = Q(GAME_WIDTH) - pipeSpeed
    /\ ~pipes[2].passed

\* C9: no step lowers the best score.
BestNeverDecreases == [][highScore' >= highScore]_vars

\* C9 witness: a session ended with a score below the best score loaded at
\* mount, which was kept.
BestKeptAboveScore ==
    /\ gameState = GAME_OVER
    /\ highScore = 12
    /\ score = 1

\* C10 as claimed: in every reachable state the best score is at least the
\* score.
BestAtLeastScore == highScore >= score

\* C10 as amended: whenever the mode is not PLAYING (after the GAME_OVER
\* update, and in START) the best score is at least the score.
BestAtLeastScoreOutsidePlaying ==
    gameState # PLAYING => highScore >= score

\* C10 witness: a session ended with a positive score and the best score
\* covers it.
BestCoversScoreAtGameOver ==
    /\ gameState = GAME_OVER
    /\ score > 0
    /\ highScore >= score
    /\ Len(pipes) > 0

\* C11 as claimed: read from front to back, the pipes are ordered by
\* non-increasing horizontal position.
PipesNonIncreasing ==
    \A i, j \in 1..Len(pipes) : i < j => pipes[i].x >= pipes[j].x

\* C11 as amended: read from front to back (spawn order), the pipes are
\* ordered by non-decreasing horizontal position: the oldest pipe, at the
\* front, is the leftmost.
PipesNonDecreasing ==
    \A i, j \in 1..Len(pipes) : i < j => pipes[i].x <= pipes[j].x

\* C11 witness: two pipes are live, the older one to the left of the bird
\* and the newer one just spawned.
TwoPipesLive ==
    /\ Len(pipes) = 2
    /\ pipes[1].x < birdLeft
    /\ pipes[2].x > birdRight

\* C12: a Playing frame keeps every pipe whose right edge, after the move,
\* is at or right of the margin (10 units left of the world's left
\* boundary), removes a pipe whose right edge is past it, which is always
\* the front pipe, removes at most one pipe, and so never leaves a pipe
\* past the margin in the sequence.
RemovalAtMargin ==
    [][(gameState = PLAYING /\ render) =>
          /\ \A i \in 1..Len(pipes) :
                 IF pipes[i].x - pipeSpeed + Q(pipeWidth)
                        >= Q(cleanupX + pipeWidth)
                 THEN \E j \in 1..Len(pipes') :
                          /\ pipes'[j].x = pipes[i].x - pipeSpeed
                          /\ pipes'[j].topHeight = pipes[i].topHeight
                 ELSE /\ i = 1
                      /\ \A j \in 1..Len(pipes') :
                             pipes'[j].x # pipes[i].x - pipeSpeed
          /\ Len(pipes') >= Len(pipes) - 1
          /\ \A j \in 1..Len(pipes') :
                 pipes'[j].x + Q(pipeWidth) >= Q(cleanupX + pipeWidth)
      ]_vars

\* C12 witness: the first pipe has just been removed, in the frame with
\* counter value 184, and only the second pipe is left.
FirstPipeRemoved ==
    /\ frameCount = 185
    /\ Len(pipes) = 1
    /\ pipes[1].x > birdRight

\* C13: a Playing frame that detects a collision completes the transition
\* whether or not the write to the store succeeds: the component is still
\* mounted, the mode is GAME_OVER and the best score in memory is the larger
\* of the previous best and the score.
GameOverDespiteWriteFailure ==
    [][(gameState = PLAYING /\ render /\ Collides') =>
          /\ mounted'
          /\ gameState' = GAME_OVER
          /\ highScore' = Max(highScore, score')]_vars

\* C14: every impulse is processed at once against the mode of the state it
\* arrives in, whether or not a frame ran since the impulse before: in
\* GAME_OVER it resets to START and applies no impulse, in START it enters
\* PLAYING with the impulse velocity and moves nothing else, in PLAYING it
\* re-applies the impulse velocity.
ImpulseAgainstCurrentMode ==
    [][jump =>
          /\ gameState = GAME_OVER =>
                 /\ gameState' = START
                 /\ birdVelocity' = 0
                 /\ frameCount' = 0
          /\ gameState = START =>
                 /\ gameState' = PLAYING
                 /\ birdVelocity' = jumpStrength
                 /\ birdY' = birdY
                 /\ frameCount' = frameCount
          /\ gameState = PLAYING =>
                 /\ gameState' = PLAYING
                 /\ birdVelocity' = jumpStrength
                 /\ birdY' = birdY
                 /\ frameCount' = frameCount]_vars

\* C14 witness: two impulses arrived in GAME_OVER with no frame between
\* them: play is on again after a session that scored, the frame counter is
\* 0 and the bird is still exactly at the reset position, which every frame
\* drawn in START moves it away from.
BurstAfterGameOver ==
    /\ gameState = PLAYING
    /\ frameCount = 0
    /\ birdY = Q(GAME_HEIGHT) \div 2
    /\ birdVelocity = jumpStrength
    /\ highScore = 1
    /\ flappyHighScore = <<1>>

\* C15: a Playing frame that detects a collision fires the GAME_OVER
\* transition once: the mode becomes GAME_OVER, the score is the one before
\* the frame, and the best score and the store are what a single detection
\* gives, however many were made; and a step taken in GAME_OVER is the
\* reset or leaves bird, pipes, frame counter and score alone.
CollisionFiresOnce ==
    [][/\ (gameState = PLAYING /\ render /\ Collides') =>
              /\ gameState' = GAME_OVER
              /\ score' = score
              /\ highScore' = Max(highScore, score)
              /\ flappyHighScore' = toString(Max(highScore, score))
       /\ gameState = GAME_OVER =>
              \/ /\ gameState' = START
                 /\ score' = 0
                 /\ frameCount' = 0
              \/ UNCHANGED <<gameState, score, highScore, birdY,
                             birdVelocity, pipes, frameCount>>]_vars

\* C16: a frame run in GAME_OVER leaves bird position and velocity, pipes,
\* frame counter, score and best score unchanged; a frame run in START
\* changes the bird position only, to within the bob amplitude of
\* GAME_HEIGHT/2, and leaves velocity, pipes, frame counter and score
\* unchanged.
FrameOutsidePlaying ==
    [][render =>
          /\ gameState = GAME_OVER =>
                 UNCHANGED <<gameState, birdY, birdVelocity, pipes,
                             frameCount, score, highScore, flappyHighScore>>
          /\ gameState = START =>
                 /\ UNCHANGED <<gameState, birdVelocity, pipes, frameCount,
                                score, highScore, flappyHighScore>>
                 /\ birdY' >= Q(GAME_HEIGHT) \div 2 - Q(bobAmplitude)
                 /\ birdY' <= Q(GAME_HEIGHT) \div 2 + Q(bobAmplitude)]_vars

\* C16 witness: a frame has run in START after a reset: the bird is off the
\* reset position by the bob while velocity, pipes, frame counter and score
\* are still those of the reset.
BobbedAfterReset ==
    /\ gameState = START
    /\ highScore = 1
    /\ birdY # Q(GAME_HEIGHT) \div 2
    /\ birdVelocity = 0
    /\ pipes = <<>>
    /\ frameCount = 0
    /\ score = 0

\* C17: a Playing frame starts with the bird's box strictly between the
\* ceiling and the ground line; after the position update it goes to
\* GAME_OVER if the lower bound y + radius is beyond the ground line
\* GAME_HEIGHT - 20 or the upper bound y - radius is beyond the ceiling 0,
\* and, no pipe being hit, stays PLAYING otherwise.
GroundCeilingExceeded ==
    [][(gameState = PLAYING /\ render) =>
          /\ birdY - Q(birdRadius) > 0
          /\ birdY + Q(birdRadius) < Q(GAME_HEIGHT - 20)
          /\ (\/ birdY' + Q(birdRadius) > Q(GAME_HEIGHT - 20)
              \/ birdY' - Q(birdRadius) < 0) => gameState' = GAME_OVER
          /\ (/\ birdY' + Q(birdRadius) <= Q(GAME_HEIGHT - 20)
              /\ birdY' - Q(birdRadius) >= 0
              /\ \A i \in 1..Len(pipes') :
                     /\ ~hitTopPipe(pipes'[i], birdY')
                     /\ ~hitBottomPipe(pipes'[i], birdY'))
                 => gameState' = PLAYING]_vars

\* C18: every step is taken while the component is mounted and leaves at
\* most one frame callback pending: while mounted exactly the one whose
\* handle animationFrameId holds, after teardown none; so a re-bind of the
\* loop leaves no second loop behind and after teardown no step runs.
OneFramePending ==
    [][/\ mounted
       /\ pendingFrames = {animationFrameId}
       /\ Cardinality(pendingFrames') <= 1
       /\ mounted' => pendingFrames' = {animationFrameId'}
       /\ ~mounted' => pendingFrames' = {}]_vars

\* C18 witness: the component was torn down in GAME_OVER after a session
\* that scored, i.e. after the loop was re-bound on mode and score changes,
\* and no frame callback is pending.
TornDownAfterPlay ==
    /\ ~mounted
    /\ gameState = GAME_OVER
    /\ score = 1
    /\ pendingFrames = {}

\* C19: a frame removes the front pipe only after its passed flag was set,
\* at most two pipes are live, and before and after every step the score
\* equals the number of pipes spawned in the session (one per full spawn
\* interval begun) that were flagged passed: the removed ones and the live
\* ones whose flag is set.
ScoreCountsPassedPipes ==
    [][LET Spawned(fc) ==
               IF fc = 0 THEN 0 ELSE (fc - 1) \div pipeSpawnRate + 1
           PassedLive(ps) ==
               Cardinality({i \in 1..Len(ps) : ps[i].passed})
       IN  /\ (/\ gameState = PLAYING
               /\ render
               /\ Len(pipes) > 0
               /\ \A j \in 1..Len(pipes') :
                      pipes'[j].x # pipes[1].x - pipeSpeed)
                  => (pipes[1].passed /\ pipes[1].x < birdLeft)
           /\ Len(pipes) <= 2
           /\ Len(pipes') <= 2
           /\ score = Spawned(frameCount) - Len(pipes) + PassedLive(pipes)
           /\ score' = Spawned(frameCount') - Len(pipes')
                           + PassedLive(pipes')]_vars

\* C19 witness: the second pipe has been passed after the first one was
\* removed: two pipes were spawned, one is live, and the score is 2.
BothPipesScored ==
    /\ score = 2
    /\ Len(pipes) = 1
    /\ pipes[1].passed
    /\ frameCount > pipeSpawnRate

\* C20: with frames run fairly, every Playing state is followed by
\* GAME_OVER unless a further impulse arrives first (the velocity is
\* jumpStrength exactly in the states an impulse leaves).
FallEndsGame ==
    (gameState = PLAYING) ~>
        (\/ gameState = GAME_OVER
         \/ gameState = PLAYING /\ birdVelocity = jumpStrength)
====
